---- MODULE Spec2Model ----
(***************************************************************************)
(* A model of the Vaultwarden password rotation scheduler                  *)
(* (vaultwarden_scheduler): the candidate selector, the digest tracker and *)
(* the notification dispatch of PasswordRotationScheduler.run_once.        *)
(*                                                                         *)
(* Modelling conventions                                                   *)
(*  - An Optional value is a sequence: <<>> is Python's None, <<v>> is v.   *)
(*  - A datetime is a record [utc, tz]: utc is the instant, counted in     *)
(*    days, tz the UTC offset it carries.  Aware datetimes compare by      *)
(*    instant; isoformat() prints the offset too.                          *)
(*  - A timedelta is a number of days.                                     *)
(*  - SHA-256 is taken to be collision free: a digest is represented by    *)
(*    the serialized payload it hashes, so two digests are equal exactly   *)
(*    when the serialized payloads are.                                    *)
(***************************************************************************)
EXTENDS Integers, Sequences, FiniteSets, TLC

VARIABLES
    policy,        \* scheduler._policy: [frequency_days, grace_period_days]
    env_digest,    \* the process environment's ROTATION_SNS_DIGEST
    vault,         \* the VaultItems of the ciphers the server lists, in order
    clock,         \* the day now_factory() returns
    state_file,    \* content of the file ROTATION_STATE_FILE names
    pc,            \* "idle" | "done" | "failed" (cycles); "ready" and the
                   \* step reached, in the specifications of single parts
    candidates,    \* the list the last run_once selected (and returned,
                   \* unless it raised)
    calls,         \* the notifier calls of the last cycle, in order
    outcome,       \* how the last cycle ended: "none" | "ok" |
                   \* "delivery_error" (the notifier raised) |
                   \* "state_error" (the state file access raised) |
                   \* "source_error" (list_ciphers raised) |
                   \* "type_error" (a datetime comparison raised)
    has_changed,   \* "n/a" | "true" | "false": _digest_has_changed's result
    stored_for,    \* the candidate list whose digest state_file holds
    state_before,  \* [file, stored_for] as the last cycle found them
    file_io,       \* the state file operations of the last cycle, in order
    faults,        \* the I/O faults the last cycle met on the state file
    directory,     \* what the recipient resolver answered in the last cycle
    previous,      \* outcome of the cycle run directly before the last one
                   \* over the same input ("dry" for a dry run), "none"
                   \* without such a cycle
    shuffled,      \* a permutation of vault (fingerprint specification)
    digests,       \* <<digest of vault's, digest of shuffled's candidates>>
    raw,           \* the raw cipher records list_ciphers returned
    wall,          \* the day the system clock, datetime.now(), shows
    cycles,        \* concurrent evaluation cycles: each one's step and locals
    client_error_cls, \* notifier._client_error_cls: "ClientError" | "Exception"
    responses,     \* what sns.publish does at each attempt of one send
    attempt,       \* send_rotation_notice: the loop variable
    slept,         \* send_rotation_notice: the time.sleep() calls, in order
    published,     \* send_rotation_notice: number of sns.publish calls made
    send_state,    \* send_rotation_notice: "sending" | "returned" | "raised"
    send_notifications, \* run_once's argument in the last cycle
    last_empty,    \* the most recent run_once returned no candidate
    service        \* run_scheduler_loop: its settings, position and record

source_vars == <<raw, wall>>

notifier_vars ==
    <<client_error_cls, responses, attempt, slept, published, send_state>>

history_vars == <<send_notifications, last_empty>>

vars == <<policy, env_digest, vault, clock, state_file, pc, candidates, calls,
          outcome, has_changed, stored_for, state_before, file_io, faults,
          directory, previous, shuffled, digests, source_vars, cycles,
          notifier_vars, history_vars, service>>

-----------------------------------------------------------------------------
(* Bounds of the model *)

MaxItems == 2
MaxRevision == 1
MaxFrequency == 2
MaxGrace == 1
MaxClock == 2

-----------------------------------------------------------------------------
(* Values *)

None == <<>>
Some(v) == <<v>>

UTC == "+00:00"
TzOffsets == {UTC, "+02:00"}

ItemIds == {"a", "b"}
NoUser == "<None>"
UserIds == {"u1"}
UserKeys == UserIds \cup {NoUser}

NoEmail == "<None>"
Addresses == {"e1", "e2"}
EmailResults == Addresses \cup {NoEmail, ""}

Unset == "<unset>"
DigestEnvValues == {Unset, "On", "0"}

DateTime(t, z) == [utc |-> t, tz |-> z]

(* VaultItem: the fields the scheduler reads.  name and collection_ids are  *)
(* carried by the dataclass but read by neither selection nor dispatch.     *)
VaultItem(i, u, rev, rot) ==
    [id |-> i, user_id |-> u, revision_date |-> rev, last_rotated_at |-> rot]

(* The owner of each cipher of the modelled vault. *)
CipherOwner(i) == IF i = "a" THEN "u1" ELSE NoUser

-----------------------------------------------------------------------------
(* config.py: RotationPolicy *)

FrequencyDelta(p) == p.frequency_days

GraceDelta(p) == p.grace_period_days

-----------------------------------------------------------------------------
(* scheduler.py: VaultItem, the candidate selector *)

(* datetime + timedelta: the instant moves, the offset stays. *)
PlusDays(dt, days) == [dt EXCEPT !.utc = @ + days]

(* a >= b on offset-aware datetimes compares the instants. *)
DtGe(a, b) == a.utc >= b.utc

NowFactory(day) == DateTime(day, UTC)

EffectiveRotationSourceLatest(item) ==
    IF item.last_rotated_at # None
         /\ item.last_rotated_at[1].utc >= item.revision_date.utc
    THEN item.last_rotated_at[1]
    ELSE item.revision_date

(* last_rotated_at or revision_date: a datetime is always truthy. *)
EffectiveRotationSource(item) ==
    IF item.last_rotated_at # None THEN item.last_rotated_at[1]
    ELSE item.revision_date

ReminderThresholdNoGrace(p) == FrequencyDelta(p)

ReminderThreshold(p) == FrequencyDelta(p) - GraceDelta(p)

DueAtReminder(item, p) ==
    PlusDays(EffectiveRotationSource(item), ReminderThreshold(p))

DueAt(item, p) == PlusDays(EffectiveRotationSource(item), FrequencyDelta(p))

IsDue(item, p, now) ==
    DtGe(now, PlusDays(EffectiveRotationSource(item), ReminderThreshold(p)))

RotationCandidate(item, due) == [item |-> item, due_at |-> due]

(* _select_due_items: the due items, in input order, each with its due_at. *)
SelectDueItems(items, p, now) ==
    LET Test(item) == IsDue(item, p, now)
        due_items == SelectSeq(items, Test)
    IN [i \in 1..Len(due_items) |->
            RotationCandidate(due_items[i], DueAt(due_items[i], p))]

-----------------------------------------------------------------------------
(* scheduler.py: the digest tracker *)

(* datetime.isoformat(): the wall-clock fields and the offset; the string   *)
(* determines, and is determined by, the instant together with the offset.  *)
IsoFormat(dt) == <<"iso", dt.utc, dt.tz>>

(* sha256(json.dumps(payload, sort_keys=True)): sort_keys orders the keys   *)
(* of each {"id", "due"} object; the list keeps the candidates' order.      *)
Fingerprint(cands) ==
    [i \in 1..Len(cands) |->
        [id |-> cands[i].item.id, due |-> IsoFormat(cands[i].due_at)]]

AbsentFile == [kind |-> "absent", last_hash |-> <<>>]
CorruptFile == [kind |-> "corrupt", last_hash |-> <<>>]
JsonFile(digest) == [kind |-> "json", last_hash |-> digest]

(* How the state file answers a cycle that looks for the stored digest.     *)
(* "stat_error": path.exists() raises; pathlib's exists() returns False     *)
(* only for ENOENT, ENOTDIR, EBADF and ELOOP and re-raises any other        *)
(* OSError of the stat call (EACCES under a directory the process may not   *)
(* search, ENAMETOOLONG).  "read_error": the file is there and read_text()  *)
(* raises.                                                                  *)
ReadResults == {"ok", "read_error", "stat_error"}
WriteResults == {"ok", "denied", "truncated"}
NoFaults == [read |-> "ok", write |-> "none"]

(* prev: None when the file does not exist, cannot be read or does not      *)
(* decode to an object; else its "last_hash".                               *)
LoadPrev(file, read) ==
    IF file.kind = "absent" THEN None
    ELSE IF read = "read_error" \/ file.kind = "corrupt" THEN None
    ELSE Some(file.last_hash)

(* path.write_text: opens the file truncating it, then writes.  A failure   *)
(* to open leaves the file as it was; a failure while writing leaves it     *)
(* cut short, which no longer decodes.                                      *)
WriteState(file, digest, write) ==
    CASE write = "ok" -> JsonFile(digest)
      [] write = "denied" -> file
      [] write = "truncated" -> CorruptFile

(* _digest_has_changed.  raised: an exception leaves the function.  The     *)
(* read and the write are inside try/except Exception; path.exists() (line  *)
(* 180) is before the try, so what it raises leaves the function with       *)
(* nothing read, written or returned.                                       *)
DigestHasChanged(cands, file, read, write) ==
    LET digest == Fingerprint(cands)
        exists == file.kind # "absent"
        prev == LoadPrev(file, read)
        reads == IF exists THEN <<"exists", "read">> ELSE <<"exists">>
    IN IF read = "stat_error"
       THEN [changed |-> FALSE, file |-> file, io |-> <<"exists">>,
             raised |-> TRUE]
       ELSE IF Some(digest) = prev
       THEN [changed |-> FALSE, file |-> file, io |-> reads, raised |-> FALSE]
       ELSE [changed |-> TRUE, file |-> WriteState(file, digest, write),
             io |-> reads \o <<"write">>, raised |-> FALSE]

-----------------------------------------------------------------------------
(* scheduler.py: dispatch *)

(* str.lower() on the values the environment variable takes here. *)
Lower(v) == IF v = "On" THEN "on" ELSE v

(* os.getenv("ROTATION_SNS_DIGEST", "1").lower() in {"1","true","yes","on"} *)
DigestEnabled(env) ==
    Lower(IF env = Unset THEN "1" ELSE env) \in {"1", "true", "yes", "on"}

NonEmptyAlways(list) == TRUE

(* The truth value of a list: "if candidates", "if not candidates",         *)
(* "if not grouped".                                                        *)
NonEmpty(list) == Len(list) > 0

FalsyNoneOnly(email) == email = NoEmail

(* "if not email": None and the empty string. *)
Falsy(email) == email \in {NoEmail, ""}

(* _user_email_resolver(candidate.item): the resolver's answer for the      *)
(* item's owner.                                                            *)
Resolve(dir, item) == dir[item.user_id]

(* grouped.setdefault(email, []).append(candidate) on an insertion-ordered  *)
(* dict, kept as a sequence of [recipient, items].                          *)
SetDefaultAppend(grouped, email, candidate) ==
    IF \E i \in 1..Len(grouped) : grouped[i].recipient = email
    THEN [i \in 1..Len(grouped) |->
            IF grouped[i].recipient = email
            THEN [grouped[i] EXCEPT !.items = Append(@, candidate)]
            ELSE grouped[i]]
    ELSE Append(grouped, [recipient |-> email, items |-> <<candidate>>])

RECURSIVE GroupCandidates(_, _, _)
GroupCandidates(cands, dir, grouped) ==
    IF cands = <<>> THEN grouped
    ELSE LET email == Resolve(dir, Head(cands).item)
         IN IF Falsy(email)
            THEN GroupCandidates(Tail(cands), dir, grouped)
            ELSE GroupCandidates(Tail(cands), dir,
                                 SetDefaultAppend(grouped, email, Head(cands)))

Notice(recipient, items, delivered) ==
    [recipient |-> recipient, items |-> items, delivered |-> delivered]

(* for recipient, items in grouped.items(): send_rotation_notice(...).      *)
(* fail_at = k > 0: the k-th call raises, which ends the loop; 0: none does.*)
SendLoop(grouped, fail_at) ==
    LET last == IF fail_at \in 1..Len(grouped) THEN fail_at ELSE Len(grouped)
    IN [i \in 1..last |->
            Notice(grouped[i].recipient, grouped[i].items, i # fail_at)]

Result(calls_, file, changed, io, out) ==
    [calls |-> calls_, file |-> file, has_changed |-> changed, io |-> io,
     outcome |-> out]

(* _dispatch_notifications, digest branch (lines 150-156).  An exception   *)
(* of _digest_has_changed is not caught here or in run_once.                *)
DispatchDigest(cands, file, read, write, delivered) ==
    LET r == DigestHasChanged(cands, file, read, write)
    IN IF r.raised
       THEN Result(<<>>, r.file, "n/a", r.io, "state_error")
       ELSE IF ~r.changed
       THEN Result(<<>>, r.file, "false", r.io, "ok")
       ELSE Result(<<Notice("all", cands, delivered)>>, r.file, "true", r.io,
                   IF delivered THEN "ok" ELSE "delivery_error")

DispatchPerRecipientDedup(cands, file, dir, fail_at) ==
    LET r == DigestHasChanged(cands, file, "ok", "ok")
        sent == SendLoop(GroupCandidates(cands, dir, <<>>), fail_at)
    IN IF ~r.changed
       THEN Result(<<>>, r.file, "false", r.io, "ok")
       ELSE Result(sent, r.file, "true", r.io,
                   IF \E i \in 1..Len(sent) : ~sent[i].delivered
                   THEN "delivery_error" ELSE "ok")

(* _dispatch_notifications, per-recipient branch (lines 158-171). *)
DispatchPerRecipient(cands, file, dir, fail_at) ==
    LET grouped == GroupCandidates(cands, dir, <<>>)
        sent == IF NonEmpty(grouped) THEN SendLoop(grouped, fail_at) ELSE <<>>
    IN Result(sent, file, "n/a", <<>>,
              IF \E i \in 1..Len(sent) : ~sent[i].delivered
              THEN "delivery_error" ELSE "ok")

(* _dispatch_notifications (lines 145-171). *)
Dispatch(cands, env, file, read, write, delivered, dir, fail_at) ==
    IF ~NonEmpty(cands) THEN Result(<<>>, file, "n/a", <<>>, "ok")
    ELSE IF DigestEnabled(env)
    THEN DispatchDigest(cands, file, read, write, delivered)
    ELSE DispatchPerRecipient(cands, file, dir, fail_at)

RunOnceResultIgnoresSend(send, cands, env, file, read, write, delivered, dir, fail_at) ==
    Dispatch(cands, env, file, read, write, delivered, dir, fail_at)

(* run_once, from the candidates on (lines 125-127); send is its           *)
(* send_notifications argument.                                             *)
RunOnceResult(send, cands, env, file, read, write, delivered, dir, fail_at) ==
    IF send /\ NonEmpty(cands)
    THEN Dispatch(cands, env, file, read, write, delivered, dir, fail_at)
    ELSE Result(<<>>, file, "n/a", <<>>, "ok")

-----------------------------------------------------------------------------
(* The evaluation cycles *)

NoDirectory == [u \in UserKeys |-> NoEmail]
Directories == [UserKeys -> EmailResults]

CyclePolicy ==
    [frequency_days |-> MaxFrequency, grace_period_days |-> MaxGrace]

NothingBefore == [file |-> AbsentFile, stored_for |-> <<>>]

(* No send_rotation_notice call in progress. *)
NotifierIdle ==
    /\ client_error_cls = "ClientError"
    /\ responses = <<>>
    /\ attempt = 0
    /\ slept = <<>>
    /\ published = 0
    /\ send_state = "returned"

(* No raw listing at hand; the system clock at day 0. *)
SourceIdle == raw = <<>> /\ wall = 0

(* No concurrent evaluation cycles. *)
NoCycles == cycles = <<>>

(* No cycle has run; run_once's argument at its default. *)
NoHistory == send_notifications = TRUE /\ last_empty = FALSE

(* run_scheduler_loop is not running. *)
NoService == service = <<>>

Blank ==
    /\ pc' = "idle"
    /\ candidates' = <<>>
    /\ calls' = <<>>
    /\ outcome' = "none"
    /\ has_changed' = "n/a"
    /\ state_before' = NothingBefore
    /\ file_io' = <<>>
    /\ faults' = NoFaults
    /\ directory' = NoDirectory
    /\ previous' = "none"
    /\ send_notifications' = TRUE

Init ==
    /\ policy = CyclePolicy
    /\ env_digest = Unset
    /\ vault = <<>>
    /\ clock = 0
    /\ state_file = AbsentFile
    /\ pc = "idle"
    /\ candidates = <<>>
    /\ calls = <<>>
    /\ outcome = "none"
    /\ has_changed = "n/a"
    /\ stored_for = <<>>
    /\ state_before = NothingBefore
    /\ file_io = <<>>
    /\ faults = NoFaults
    /\ directory = NoDirectory
    /\ previous = "none"
    /\ shuffled = <<>>
    /\ digests = <<>>
    /\ SourceIdle
    /\ NoCycles
    /\ NotifierIdle
    /\ NoHistory
    /\ NoService

VaultIds == {vault[k].id : k \in 1..Len(vault)}

(* The server gains a cipher: list_ciphers returns it after the others. *)
AddCipher ==
    /\ pc \in {"idle", "done", "failed"}
    /\ Len(vault) < MaxItems
    /\ \E i \in ItemIds \ VaultIds, r \in 0..MaxRevision :
          vault' = Append(vault,
                          VaultItem(i, CipherOwner(i), DateTime(r, UTC), None))
    /\ Blank
    /\ UNCHANGED <<policy, env_digest, clock, state_file, stored_for, shuffled,
                   digests, source_vars, cycles, notifier_vars, last_empty,
                   service>>

(* The server loses a cipher. *)
RemoveCipher ==
    /\ pc \in {"idle", "done", "failed"}
    /\ \E k \in 1..Len(vault) :
          vault' = SubSeq(vault, 1, k - 1) \o SubSeq(vault, k + 1, Len(vault))
    /\ Blank
    /\ UNCHANGED <<policy, env_digest, clock, state_file, stored_for, shuffled,
                   digests, source_vars, cycles, notifier_vars, last_empty,
                   service>>

(* A day passes. *)
Tick ==
    /\ pc \in {"idle", "done", "failed"}
    /\ clock < MaxClock
    /\ clock' = clock + 1
    /\ Blank
    /\ UNCHANGED <<policy, env_digest, vault, state_file, stored_for, shuffled,
                   digests, source_vars, cycles, notifier_vars, last_empty,
                   service>>

(* The service is started again with another ROTATION_SNS_DIGEST; the state *)
(* file stays.                                                              *)
Restart ==
    /\ pc \in {"idle", "done", "failed"}
    /\ \E e \in DigestEnvValues \ {env_digest} : env_digest' = e
    /\ Blank
    /\ UNCHANGED <<policy, vault, clock, state_file, stored_for, shuffled,
                   digests, source_vars, cycles, notifier_vars, last_empty,
                   service>>

Record(cands, r, read, write, dir) ==
    /\ pc' = "done"
    /\ candidates' = cands
    /\ calls' = r.calls
    /\ outcome' = r.outcome
    /\ has_changed' = r.has_changed
    /\ state_before' = [file |-> state_file, stored_for |-> stored_for]
    /\ state_file' = r.file
    /\ stored_for' = IF r.file = state_file THEN stored_for
                     ELSE IF r.file.kind = "json" THEN cands ELSE <<>>
    /\ file_io' = r.io
    /\ faults' = [read |-> IF r.outcome = "state_error" THEN "stat_error"
                            ELSE IF \E k \in 1..Len(r.io) : r.io[k] = "read"
                            THEN read ELSE "ok",
                  write |-> IF \E k \in 1..Len(r.io) : r.io[k] = "write"
                            THEN write ELSE "none"]
    /\ directory' = IF DigestEnabled(env_digest) \/ cands = <<>>
                    THEN NoDirectory ELSE dir
    /\ previous' = IF pc # "done" THEN "none"
                   ELSE IF send_notifications THEN outcome ELSE "dry"
    /\ last_empty' = (cands = <<>>)
    /\ UNCHANGED <<policy, env_digest, vault, clock, shuffled, digests,
                   source_vars, cycles, notifier_vars, service>>

Cycle(cands, read, write, delivered, dir, fail_at) ==
    \E r \in {RunOnceResult(TRUE, cands, env_digest, state_file, read,
                            write, delivered, dir, fail_at)} :
        Record(cands, r, read, write, dir) /\ send_notifications' = TRUE

(* One evaluation cycle: PasswordRotationScheduler.run_once().  The state   *)
(* file's faults, the delivery's result and the resolver's answers are      *)
(* drawn where the cycle can meet them.                                     *)
RunOnce ==
    /\ pc \in {"idle", "done", "failed"}
    /\ \E cands \in {SelectDueItems(vault, policy, NowFactory(clock))} :
          IF cands = <<>>
          THEN Cycle(cands, "ok", "ok", TRUE, NoDirectory, 0)
          ELSE IF DigestEnabled(env_digest)
          THEN \E read \in ReadResults, write \in WriteResults,
                  delivered \in BOOLEAN :
                   Cycle(cands, read, write, delivered, NoDirectory, 0)
          ELSE \E dir \in Directories, fail_at \in 0..Len(cands) :
                   Cycle(cands, "ok", "ok", TRUE, dir, fail_at)

(* A dry run: run_once(send_notifications=False), what run_scheduler_loop   *)
(* calls under ROTATION_DRY_RUN.                                            *)
RunOnceDry ==
    /\ pc \in {"idle", "done", "failed"}
    /\ \E cands \in {SelectDueItems(vault, policy, NowFactory(clock))} :
       \E r \in {RunOnceResult(FALSE, cands, env_digest, state_file, "ok",
                               "ok", TRUE, NoDirectory, 0)} :
          Record(cands, r, "ok", "ok", NoDirectory)
    /\ send_notifications' = FALSE

RunOnceSourceErrorResets(file) ==
    Result(<<>>, AbsentFile, "n/a", <<"write">>, "source_error")

(* run_once when self._client.list_ciphers() raises (line 116, the first    *)
(* statement): the exception leaves run_once before anything else is done.  *)
RunOnceSourceError(file) == Result(<<>>, file, "n/a", <<>>, "source_error")

(* One evaluation cycle whose listing fails: an HTTP error, a failed         *)
(* authentication or an unexpected response of /api/ciphers.                *)
ListFails ==
    /\ pc \in {"idle", "done", "failed"}
    /\ \E r \in {RunOnceSourceError(state_file)} :
          /\ pc' = "failed"
          /\ candidates' = <<>>
          /\ calls' = r.calls
          /\ outcome' = r.outcome
          /\ has_changed' = r.has_changed
          /\ state_before' = [file |-> state_file, stored_for |-> stored_for]
          /\ state_file' = r.file
          /\ stored_for' = IF r.file = state_file THEN stored_for ELSE <<>>
          /\ file_io' = r.io
    /\ faults' = NoFaults
    /\ directory' = NoDirectory
    /\ previous' = "none"
    /\ send_notifications' = TRUE
    /\ last_empty' = FALSE
    /\ UNCHANGED <<policy, env_digest, vault, clock, shuffled, digests,
                   source_vars, cycles, notifier_vars, service>>

Next ==
    \/ AddCipher
    \/ RemoveCipher
    \/ Tick
    \/ Restart
    \/ RunOnce
    \/ RunOnceDry
    \/ ListFails

Spec == Init /\ [][Next]_vars

-----------------------------------------------------------------------------
(* The candidate selector on its own: _select_due_items over every policy,  *)
(* item list and evaluation time of the bounds.                             *)

Policies ==
    [frequency_days : 1..MaxFrequency, grace_period_days : 0..MaxGrace]

Timestamps(zones) == {DateTime(t, z) : t \in 0..MaxRevision, z \in zones}

ItemsOver(zones, rotations) ==
    {VaultItem(i, CipherOwner(i), rev, rot) :
        i \in ItemIds, rev \in Timestamps(zones), rot \in rotations}

(* The lists of at most MaxItems items with distinct ids. *)
ListsOf(items) ==
    {s \in UNION {[1..n -> items] : n \in 0..MaxItems} :
        \A j, k \in 1..Len(s) : j # k => s[j].id # s[k].id}

Unused ==
    /\ env_digest = Unset
    /\ state_file = AbsentFile
    /\ calls = <<>>
    /\ outcome = "none"
    /\ has_changed = "n/a"
    /\ stored_for = <<>>
    /\ state_before = NothingBefore
    /\ file_io = <<>>
    /\ faults = NoFaults
    /\ directory = NoDirectory
    /\ previous = "none"
    /\ SourceIdle
    /\ NoCycles
    /\ NotifierIdle
    /\ NoHistory
    /\ NoService

InitSelect ==
    /\ policy \in Policies
    /\ vault \in ListsOf(ItemsOver({UTC},
                    {None} \cup {Some(t) : t \in Timestamps({UTC})}))
    /\ clock \in 0..(MaxRevision + MaxFrequency + 1)
    /\ pc = "ready"
    /\ candidates = <<>>
    /\ shuffled = <<>>
    /\ digests = <<>>
    /\ Unused

Select ==
    /\ pc = "ready"
    /\ candidates' = SelectDueItems(vault, policy, NowFactory(clock))
    /\ pc' = "selected"
    /\ UNCHANGED <<policy, env_digest, vault, clock, state_file, calls,
                   outcome, has_changed, stored_for, state_before, file_io,
                   faults, directory, previous, shuffled, digests, source_vars,
                   cycles, notifier_vars, history_vars, service>>

SpecSelect == InitSelect /\ [][Select]_vars

-----------------------------------------------------------------------------
(* The fingerprint on its own: the digest of a candidate list and of a      *)
(* permutation of it.                                                       *)

IsPermutation(s, t) ==
    /\ Len(s) = Len(t)
    /\ \E f \in [1..Len(s) -> 1..Len(s)] :
          /\ \A j, k \in 1..Len(s) : j # k => f[j] # f[k]
          /\ \A j \in 1..Len(s) : s[j] = t[f[j]]

InitFingerprint ==
    /\ policy = CyclePolicy
    /\ vault \in ListsOf(ItemsOver(TzOffsets, {None}))
    /\ clock = MaxRevision + MaxFrequency
    /\ pc = "ready"
    /\ candidates = SelectDueItems(vault, policy, NowFactory(clock))
    /\ shuffled \in {s \in ListsOf(ItemsOver(TzOffsets, {None})) :
                        IsPermutation(s, vault)}
    /\ digests = <<>>
    /\ Unused

Hash ==
    /\ pc = "ready"
    /\ digests' = <<Fingerprint(candidates),
                    Fingerprint(SelectDueItems(shuffled, policy,
                                               NowFactory(clock)))>>
    /\ pc' = "hashed"
    /\ UNCHANGED <<policy, env_digest, vault, clock, state_file, candidates,
                   calls, outcome, has_changed, stored_for, state_before,
                   file_io, faults, directory, previous, shuffled, source_vars,
                   cycles, notifier_vars, history_vars, service>>

SpecFingerprint == InitFingerprint /\ [][Hash]_vars

-----------------------------------------------------------------------------
(* Concurrent evaluation cycles on one state file: run_once of several      *)
(* scheduler processes, each past its selection with the same non-empty     *)
(* candidate list, in digest mode.  _digest_has_changed and the notifier    *)
(* call are run statement by statement; no statement takes a lock.          *)

MaxCycles == 2

Workers == 1..MaxCycles

InFlight(w) == cycles[w].step \notin {"idle", "notified", "silent"}

SameDigestNever(digest, prev) == FALSE

(* digest == prev (line 185) *)
SameDigest(digest, prev) == Some(digest) = prev

SetStep(w, s) == cycles' = [cycles EXCEPT ![w].step = s]

(* run_once reaches _digest_has_changed: the digest of the candidates is    *)
(* computed (lines 176-177).                                                *)
Begin(w) ==
    /\ cycles[w].step = "idle"
    /\ SetStep(w, "exists")
    /\ pc' = IF \E v \in Workers : InFlight(v) THEN "concurrent" ELSE pc
    /\ UNCHANGED <<state_file, stored_for, calls>>

(* if path.exists(): (line 180) *)
Exists(w) ==
    /\ cycles[w].step = "exists"
    /\ SetStep(w, IF state_file.kind = "absent" THEN "compare" ELSE "read")
    /\ UNCHANGED <<state_file, stored_for, calls, pc>>

(* prev = json.loads(path.read_text()).get("last_hash"), None on an         *)
(* exception (lines 181-184)                                                *)
Read(w) ==
    /\ cycles[w].step = "read"
    /\ cycles' = [cycles EXCEPT ![w].step = "compare",
                                ![w].prev = LoadPrev(state_file, "ok")]
    /\ UNCHANGED <<state_file, stored_for, calls, pc>>

(* if digest == prev: return False (lines 185-186) *)
Compare(w) ==
    /\ cycles[w].step = "compare"
    /\ SetStep(w, IF SameDigest(Fingerprint(candidates), cycles[w].prev)
                  THEN "silent" ELSE "open")
    /\ UNCHANGED <<state_file, stored_for, calls, pc>>

(* path.write_text (line 188) opens the file, which empties it, ...         *)
Open(w) ==
    /\ cycles[w].step = "open"
    /\ SetStep(w, "write")
    /\ state_file' = CorruptFile
    /\ stored_for' = <<>>
    /\ UNCHANGED <<calls, pc>>

(* ... and then writes {"last_hash": digest}. *)
Write(w) ==
    /\ cycles[w].step = "write"
    /\ SetStep(w, "send")
    /\ state_file' = WriteState(state_file, Fingerprint(candidates), "ok")
    /\ stored_for' = candidates
    /\ UNCHANGED <<calls, pc>>

(* self._notifier.send_rotation_notice("all", candidates, ...)              *)
(* (lines 154-155)                                                          *)
Send(w) ==
    /\ cycles[w].step = "send"
    /\ SetStep(w, "notified")
    /\ calls' = Append(calls, Notice("all", candidates, TRUE))
    /\ UNCHANGED <<state_file, stored_for, pc>>

(* The state file the cycles find: none, an undecodable one, the digest of  *)
(* this due list, or the digest of a shorter, earlier due list.             *)
RaceFiles(cands) ==
    {AbsentFile, CorruptFile, JsonFile(Fingerprint(cands))}
      \cup (IF Len(cands) > 1 THEN {JsonFile(Fingerprint(Tail(cands)))} ELSE {})

InitRace ==
    /\ policy = CyclePolicy
    /\ env_digest = Unset
    /\ clock = MaxRevision + MaxFrequency
    /\ vault \in ListsOf(ItemsOver({UTC}, {None})) \ {<<>>}
    /\ candidates = SelectDueItems(vault, policy, NowFactory(clock))
    /\ state_file \in RaceFiles(candidates)
    /\ stored_for = IF state_file = JsonFile(Fingerprint(candidates))
                    THEN candidates
                    ELSE IF state_file.kind = "json" THEN Tail(candidates)
                    ELSE <<>>
    /\ state_before = [file |-> state_file, stored_for |-> stored_for]
    /\ cycles = [w \in Workers |-> [step |-> "idle", prev |-> None]]
    /\ pc = "serial"
    /\ calls = <<>>
    /\ outcome = "none"
    /\ has_changed = "n/a"
    /\ file_io = <<>>
    /\ faults = NoFaults
    /\ directory = NoDirectory
    /\ previous = "none"
    /\ shuffled = <<>>
    /\ digests = <<>>
    /\ SourceIdle
    /\ NotifierIdle
    /\ NoHistory
    /\ NoService

NextRace ==
    /\ \E w \in Workers :
          \/ Begin(w)
          \/ Exists(w)
          \/ Read(w)
          \/ Compare(w)
          \/ Open(w)
          \/ Write(w)
          \/ Send(w)
    /\ UNCHANGED <<policy, env_digest, vault, clock, candidates, outcome,
                   has_changed, state_before, file_io, faults, directory,
                   previous, shuffled, digests, source_vars, notifier_vars,
                   history_vars, service>>

SpecRace == InitRace /\ [][NextRace]_vars

-----------------------------------------------------------------------------
(* notification.py: one call of AWSSNSNotifier.send_rotation_notice *)

(* for attempt in range(5) *)
PublishBudget == 5

(* The error codes the handler retries (line 83). *)
TransientCodes == {"Throttling", "InternalError", "ServiceUnavailable"}

(* What one sns.publish call does: it returns, or raises a botocore          *)
(* ClientError with one of the transient codes or with another code, or     *)
(* raises an exception that is no ClientError and carries no response       *)
(* (botocore's ParamValidationError for a request it refuses to send).      *)
PublishOutcomes ==
    {"ok"} \cup TransientCodes \cup {"AccessDenied", "ParamValidation"}

(* except self._client_error_cls: the botocore ClientError class, or        *)
(* Exception when the SNS client was passed in (lines 29-36).               *)
CaughtAsClientError(out, cls) == cls = "Exception" \/ out # "ParamValidation"

(* getattr(e, "response", {}).get("Error", {}).get("Code") *)
ErrorCode(out) == IF out = "ParamValidation" THEN None ELSE Some(out)

BackoffLinear(a) == a + 1

(* time.sleep(2 ** attempt) *)
Backoff(a) == 2 ^ a

(* Whether the handler of the exception sleeps and continues (lines 80-93). *)
Retries(out, cls, a) ==
    IF CaughtAsClientError(out, cls)
    THEN ErrorCode(out) \in {Some(c) : c \in TransientCodes} /\ a < 4
    ELSE a < 4

ReturnsAlways(out) == TRUE

(* sns.publish returned a response: lines 78-79 build the receipt from it   *)
(* and return.                                                              *)
Returns(out) == out = "ok"

(* One iteration of the loop of lines 70-93. *)
Attempt ==
    /\ send_state = "sending"
    /\ attempt < PublishBudget
    /\ published' = published + 1
    /\ \E out \in {responses[attempt + 1]} :
          IF Returns(out)
          THEN /\ send_state' = "returned"
               /\ UNCHANGED <<attempt, slept>>
          ELSE IF Retries(out, client_error_cls, attempt)
          THEN /\ slept' = Append(slept, Backoff(attempt))
               /\ attempt' = attempt + 1
               /\ UNCHANGED send_state
          ELSE /\ send_state' = "raised"
               /\ UNCHANGED <<attempt, slept>>
    /\ UNCHANGED <<client_error_cls, responses>>
    /\ UNCHANGED <<policy, env_digest, vault, clock, state_file, pc,
                   candidates, calls, outcome, has_changed, stored_for,
                   state_before, file_io, faults, directory, previous,
                   shuffled, digests, source_vars, cycles, history_vars,
                   service>>

InitNotify ==
    /\ client_error_cls \in {"ClientError", "Exception"}
    /\ responses \in [1..PublishBudget -> PublishOutcomes]
    /\ attempt = 0
    /\ slept = <<>>
    /\ published = 0
    /\ send_state = "sending"
    /\ policy = CyclePolicy
    /\ vault = <<>>
    /\ clock = 0
    /\ pc = "ready"
    /\ candidates = <<>>
    /\ shuffled = <<>>
    /\ digests = <<>>
    /\ env_digest = Unset
    /\ state_file = AbsentFile
    /\ calls = <<>>
    /\ outcome = "none"
    /\ has_changed = "n/a"
    /\ stored_for = <<>>
    /\ state_before = NothingBefore
    /\ file_io = <<>>
    /\ faults = NoFaults
    /\ directory = NoDirectory
    /\ previous = "none"
    /\ SourceIdle
    /\ NoCycles
    /\ NoHistory
    /\ NoService

(* The call runs on: sns.publish and time.sleep return or raise. *)
SpecNotify == InitNotify /\ [][Attempt]_vars /\ WF_vars(Attempt)

-----------------------------------------------------------------------------
(* scheduler.py, client.py: run_once from the raw cipher records on: the    *)
(* targeting filters, VaultItem.from_api and _parse_timestamp.              *)

(* tzinfo of a datetime that carries no offset *)
Naive == "naive"

(* A raw timestamp field of a cipher record, by its form:                   *)
(*   "missing"  the key is not in the record                                *)
(*   "null"     JSON null                                                   *)
(*   "blank"    "" or white space                                           *)
(*   "garbage"  text no parser accepts                                      *)
(*   "z"        ISO-8601 ending in Z                                        *)
(*   "offset"   ISO-8601 with an explicit offset tz                         *)
(*   "plain"    YYYY-MM-DDTHH:MM:SS[.ffffff] or YYYY-MM-DD HH:MM:SS, zero   *)
(*              padded, no offset: datetime.fromisoformat accepts it        *)
(*   "loose"    the same without zero padding (2024-1-1T00:00:00):          *)
(*              fromisoformat rejects it, strptime accepts it               *)
RawText(f, d, z) == [form |-> f, day |-> d, tz |-> z]

Missing == RawText("missing", 0, UTC)
EmptyText == RawText("blank", 0, UTC)
NoneText == RawText("garbage", 0, UTC)

RawTimestamps ==
    {RawText(f, 0, UTC) : f \in {"missing", "null", "blank", "garbage"}}
      \cup {RawText(f, d, UTC) : f \in {"z", "plain", "loose"},
                                 d \in 0..MaxRevision}
      \cup {RawText("offset", d, z) : d \in 0..MaxRevision, z \in TzOffsets}

(* str(payload.get(key, default)): str(None) is the text "None". *)
StrGet(field, default) ==
    IF field.form = "missing" THEN default
    ELSE IF field.form = "null" THEN NoneText
    ELSE field

(* _parse_timestamp (lines 19-42): fromisoformat comes first and returns a  *)
(* datetime without tzinfo for a text without offset; only what it rejects  *)
(* reaches strptime and replace(tzinfo=timezone.utc).                       *)
ParseTimestamp(text) ==
    CASE text.form = "blank" -> None
      [] text.form = "z" -> Some(DateTime(text.day, UTC))
      [] text.form = "offset" -> Some(DateTime(text.day, text.tz))
      [] text.form = "plain" -> Some(DateTime(text.day, Naive))
      [] text.form = "loose" -> Some(DateTime(text.day, UTC))
      [] OTHER -> None

(* A raw cipher record: the keys run_once, the filters and from_api read.   *)
Payload(i, u, cid, cids, rev, rot, last) ==
    [id |-> i, userId |-> u, collectionId |-> cid, collectionIds |-> cids,
     revisionDate |-> rev, passwordRotation |-> rot,
     lastPasswordRotation |-> last]

(* x or y on Optional values *)
OrElse(x, y) == IF x # None THEN x ELSE y

(* from_api, lines 66-69 *)
RotationOf(payload) ==
    OrElse(ParseTimestamp(StrGet(payload.passwordRotation, NoneText)),
           ParseTimestamp(StrGet(payload.lastPasswordRotation, NoneText)))

(* VaultItem.from_api (lines 60-82); wallnow is datetime.now(timezone.utc). *)
FromApi(payload, wallnow) ==
    VaultItem(payload.id,
              payload.userId,
              OrElse(ParseTimestamp(StrGet(payload.revisionDate, EmptyText)),
                     Some(DateTime(wallnow, UTC)))[1],
              RotationOf(payload))

(* if self._policy.target_collections: / if self._policy.target_users:      *)
(* None and an empty list are falsy.                                        *)
Truthy(allow) == allow # None /\ allow[1] # {}

Elements(list) == {list[k] : k \in 1..Len(list)}

(* CipherSelection.filter_collections (lines 139-150) *)
MatchesCollections(payload, allowed) ==
    \/ payload.collectionId # None /\ payload.collectionId[1] \in allowed
    \/ payload.collectionIds # None
         /\ Elements(payload.collectionIds[1]) \cap allowed # {}

MatchesUsersAlways(payload, allowed) == TRUE

(* CipherSelection.filter_users (lines 152-155) *)
MatchesUsers(payload, allowed) == payload.userId \in allowed

FilterCollections(ciphers, allowed) ==
    LET Test(c) == MatchesCollections(c, allowed) IN SelectSeq(ciphers, Test)

FilterUsers(ciphers, allowed) ==
    LET Test(c) == MatchesUsers(c, allowed) IN SelectSeq(ciphers, Test)

(* run_once, lines 117-121 *)
Selection(ciphers, p) ==
    LET by_collection == IF Truthy(p.target_collections)
                         THEN FilterCollections(ciphers, p.target_collections[1])
                         ELSE ciphers
    IN IF Truthy(p.target_users)
       THEN FilterUsers(by_collection, p.target_users[1])
       ELSE by_collection

(* run_once, line 123 *)
FromApiAll(ciphers, wallnow) ==
    [k \in 1..Len(ciphers) |-> FromApi(ciphers[k], wallnow)]

(* now >= reference + reminder_threshold (line 141) raises TypeError when   *)
(* one side carries an offset and the other does not; now_factory's now     *)
(* carries one.                                                             *)
SelectRaises(items, p, now) ==
    \E k \in 1..Len(items) :
       (EffectiveRotationSource(items[k]).tz = Naive) # (now.tz = Naive)

FullPolicy(freq, grace, collections, users, digest) ==
    [frequency_days |-> freq, grace_period_days |-> grace,
     target_collections |-> collections, target_users |-> users,
     send_digest |-> digest]

(* run_once (lines 115-127) on the listing raw: filter, normalize, select,  *)
(* dispatch.  The state file works and the delivery succeeds.               *)
RunOnceRaw ==
    /\ pc = "ready"
    /\ \E items \in {FromApiAll(Selection(raw, policy), wall)} :
          /\ vault' = items
          /\ IF SelectRaises(items, policy, NowFactory(clock))
             THEN /\ pc' = "failed"
                  /\ candidates' = <<>>
                  /\ calls' = <<>>
                  /\ outcome' = "type_error"
                  /\ has_changed' = "n/a"
                  /\ file_io' = <<>>
                  /\ directory' = NoDirectory
                  /\ UNCHANGED <<state_file, stored_for>>
             ELSE \E cands \in {SelectDueItems(items, policy, NowFactory(clock))} :
                  \E dir \in IF DigestEnabled(env_digest) \/ cands = <<>>
                             THEN {NoDirectory} ELSE Directories :
                     \E r \in {RunOnceResult(TRUE, cands, env_digest, state_file,
                                             "ok", "ok", TRUE, dir, 0)} :
                        /\ pc' = "done"
                        /\ candidates' = cands
                        /\ calls' = r.calls
                        /\ outcome' = r.outcome
                        /\ has_changed' = r.has_changed
                        /\ file_io' = r.io
                        /\ directory' = dir
                        /\ state_file' = r.file
                        /\ stored_for' = IF r.file = state_file THEN stored_for
                                         ELSE cands
    /\ UNCHANGED <<policy, env_digest, clock, state_before, faults, previous,
                   shuffled, digests, source_vars, cycles, notifier_vars,
                   history_vars, service>>

(* What the specifications of run_once on raw records leave at rest. *)
RawUnused ==
    /\ vault = <<>>
    /\ pc = "ready"
    /\ candidates = <<>>
    /\ state_file = AbsentFile
    /\ calls = <<>>
    /\ outcome = "none"
    /\ has_changed = "n/a"
    /\ stored_for = <<>>
    /\ state_before = NothingBefore
    /\ file_io = <<>>
    /\ faults = NoFaults
    /\ directory = NoDirectory
    /\ previous = "none"
    /\ shuffled = <<>>
    /\ digests = <<>>
    /\ NoCycles
    /\ NotifierIdle
    /\ NoHistory
    /\ NoService

(* Normalization: one cipher record with every form of its three timestamp  *)
(* fields, evaluated at now_factory's day clock while the system clock      *)
(* shows day wall (the same day unless now_factory was passed in).          *)
InitParse ==
    /\ policy = FullPolicy(MaxFrequency, MaxGrace, None, None, TRUE)
    /\ env_digest = Unset
    /\ raw \in {<<Payload("a", CipherOwner("a"), None, None, rev, rot, last)>> :
                  rev \in RawTimestamps, rot \in RawTimestamps,
                  last \in RawTimestamps}
    /\ clock \in 1..MaxClock
    /\ wall \in 0..MaxClock
    /\ RawUnused

SpecParse == InitParse /\ [][RunOnceRaw]_vars

-----------------------------------------------------------------------------
(* The targeting filters: run_once over listings whose records differ in    *)
(* owner and collections, under every pair of allow-lists.                  *)

CollectionIds == {"c1", "c2"}
OwnerIds == {"u1", "u2"}

(* Optional[Sequence[str]]: None, or a list, taken as the set of its        *)
(* entries; the list may be empty.                                          *)
AllowLists(ids) == {None} \cup {Some(S) : S \in SUBSET ids}

FilterPayloads ==
    {Payload(i, u, cid, cids, RawText("z", 0, UTC), Missing, Missing) :
        i \in ItemIds,
        u \in OwnerIds \cup {NoUser},
        cid \in {None} \cup {Some(c) : c \in CollectionIds},
        cids \in {None, Some(<<>>), Some(<<"c2">>), Some(<<"c1", "c2">>)}}

InitFilter ==
    /\ policy \in {FullPolicy(MaxFrequency, MaxGrace, tc, tu, TRUE) :
                     tc \in AllowLists(CollectionIds), tu \in AllowLists(OwnerIds)}
    /\ env_digest = Unset
    /\ raw \in ListsOf(FilterPayloads)
    /\ clock = MaxClock
    /\ wall = clock
    /\ RawUnused

SpecFilter == InitFilter /\ [][RunOnceRaw]_vars

-----------------------------------------------------------------------------
(* The dispatch mode: run_once under every RotationPolicy.send_digest and   *)
(* every ROTATION_SNS_DIGEST of the environment.                            *)

ModePayloads ==
    {Payload(i, CipherOwner(i), None, None, RawText("z", d, UTC), Missing,
             Missing) : i \in ItemIds, d \in 0..MaxRevision}

InitMode ==
    /\ policy \in {FullPolicy(MaxFrequency, MaxGrace, None, None, digest) :
                     digest \in BOOLEAN}
    /\ env_digest \in DigestEnvValues
    /\ raw \in ListsOf(ModePayloads)
    /\ clock \in 1..MaxClock
    /\ wall = clock
    /\ RawUnused

SpecMode == InitMode /\ [][RunOnceRaw]_vars

-----------------------------------------------------------------------------
(* service.py: run_scheduler_loop, the shell that runs the cycles *)

MaxLoops == 2

(* What ROTATION_RUN_ONCE and ROTATION_DRY_RUN hold in the environment. *)
BoolEnvValues == {Unset, "On", "0"}

(* _bool_env: the default when the variable is not set, else                *)
(* raw.lower() in {"1", "true", "yes", "on"}.                               *)
BoolEnv(env, default) ==
    IF env = Unset THEN default
    ELSE Lower(env) \in {"1", "true", "yes", "on"}

(* run_scheduler_loop before its first execute_once (lines 69-79). *)
Service(dry_env, once_env) ==
    [pc |-> "start", dry_run |-> BoolEnv(dry_env, FALSE),
     run_once |-> BoolEnv(once_env, FALSE), executed |-> 0, slept |-> 0,
     logged |-> 0]

(* The run_once call raised.  "interrupt": a KeyboardInterrupt or           *)
(* SystemExit delivered while the cycle runs.                               *)
Raised(out) == out # "ok"

CaughtNothing(out) == FALSE

(* "except Exception" (line 86) catches what derives from Exception: every  *)
(* error of the source, the state file and the notifier, and not            *)
(* KeyboardInterrupt or SystemExit.                                         *)
Caught(out) == out # "interrupt"

(* The loop after one execute_once that ended with out: a caught exception  *)
(* is logged (line 87); after the first call "if run_once: return" (lines   *)
(* 93-94); otherwise on to time.sleep (line 97).                            *)
AfterCycle(s, out) ==
    LET counted == [s EXCEPT !.executed = @ + 1,
                             !.logged = IF Raised(out) /\ Caught(out)
                                        THEN @ + 1 ELSE @]
    IN IF Raised(out) /\ ~Caught(out)
       THEN [counted EXCEPT !.pc = "interrupted"]
       ELSE IF s.pc = "start" /\ s.run_once
       THEN [counted EXCEPT !.pc = "returned"]
       ELSE [counted EXCEPT !.pc = "sleeping"]

(* How one run_once of the loop can end: the listing fails, the process is  *)
(* interrupted, or the cycle runs on to its dispatch.                       *)
CycleResults(send, cands) ==
    {RunOnceSourceError(state_file),
     Result(<<>>, state_file, "n/a", <<>>, "interrupt")}
      \cup {RunOnceResult(send, cands, env_digest, state_file, read, "ok",
                          delivered, NoDirectory, 0) :
              read \in {"ok", "stat_error"}, delivered \in BOOLEAN}

(* execute_once (lines 81-90), with the statement that follows the call. *)
ExecuteOnce ==
    /\ service.pc \in {"start", "woke"}
    /\ service.executed < MaxLoops
    /\ \E cands \in {SelectDueItems(vault, policy, NowFactory(clock))} :
       \E r \in CycleResults(~service.dry_run, cands) :
          /\ pc' = IF r.outcome \in {"source_error", "interrupt"}
                   THEN "failed" ELSE "done"
          /\ candidates' = IF r.outcome \in {"source_error", "interrupt"}
                           THEN <<>> ELSE cands
          /\ calls' = r.calls
          /\ outcome' = r.outcome
          /\ has_changed' = r.has_changed
          /\ file_io' = r.io
          /\ state_before' = [file |-> state_file, stored_for |-> stored_for]
          /\ state_file' = r.file
          /\ stored_for' = IF r.file = state_file THEN stored_for ELSE cands
          /\ last_empty' = (r.outcome = "ok" /\ cands = <<>>)
          /\ faults' = [read |-> IF r.outcome = "state_error"
                                  THEN "stat_error" ELSE "ok",
                        write |-> IF \E k \in 1..Len(r.io) : r.io[k] = "write"
                                  THEN "ok" ELSE "none"]
          /\ service' = AfterCycle(service, r.outcome)
    /\ send_notifications' = ~service.dry_run
    /\ UNCHANGED <<policy, env_digest, vault, clock, directory, previous,
                   shuffled, digests, source_vars, cycles, notifier_vars>>

(* time.sleep(poll_seconds) returns (line 97). *)
Sleep ==
    /\ service.pc = "sleeping"
    /\ service' = [service EXCEPT !.pc = "woke", !.slept = @ + 1]
    /\ UNCHANGED <<policy, env_digest, vault, clock, state_file, pc,
                   candidates, calls, outcome, has_changed, stored_for,
                   state_before, file_io, faults, directory, previous,
                   shuffled, digests, source_vars, cycles, notifier_vars,
                   history_vars>>

InitLoop ==
    /\ policy = CyclePolicy
    /\ env_digest = Unset
    /\ vault \in ListsOf(ItemsOver({UTC}, {None}))
    /\ clock \in 1..MaxClock
    /\ service \in {Service(dry_env, once_env) :
                      dry_env \in BoolEnvValues, once_env \in BoolEnvValues}
    /\ state_file = AbsentFile
    /\ pc = "idle"
    /\ candidates = <<>>
    /\ calls = <<>>
    /\ outcome = "none"
    /\ has_changed = "n/a"
    /\ stored_for = <<>>
    /\ state_before = NothingBefore
    /\ file_io = <<>>
    /\ faults = NoFaults
    /\ directory = NoDirectory
    /\ previous = "none"
    /\ shuffled = <<>>
    /\ digests = <<>>
    /\ SourceIdle
    /\ NoCycles
    /\ NotifierIdle
    /\ NoHistory

NextLoop == ExecuteOnce \/ Sleep

(* The process keeps running: run_once and time.sleep come back. *)
SpecLoop ==
    InitLoop /\ [][NextLoop]_vars /\ WF_vars(ExecuteOnce) /\ WF_vars(Sleep)

-----------------------------------------------------------------------------
(* Properties.  Their vocabulary is stated on the recorded cycle, apart     *)
(* from the operators above.                                                *)

Emitted(item) == \E j \in 1..Len(candidates) : candidates[j].item = item

(* effective_rotation_source, as the data model defines it *)
SourceDay(item) ==
    IF item.last_rotated_at = None THEN item.revision_date.utc
    ELSE item.last_rotated_at[1].utc

(* The due set of a candidate list: its item ids with their due_at. *)
DueSet(cands) ==
    {<<cands[j].item.id, cands[j].due_at>> : j \in 1..Len(cands)}

(* The recorded cycle is a notifying one, in either dispatch mode. *)
DigestCycle ==
    pc = "done" /\ send_notifications /\ DigestEnabled(env_digest)
RecipientCycle ==
    pc = "done" /\ send_notifications /\ ~DigestEnabled(env_digest)

(* C1: the selector emits a candidate for an item exactly when              *)
(* now >= effective_rotation_source + (frequency_days - grace_period_days), *)
(* and emits nothing else; with no grace period, exactly when               *)
(* now >= effective_rotation_source + frequency_days.                       *)
C1_CandidateIffPastThreshold ==
    pc = "selected" =>
      /\ \A k \in 1..Len(vault) :
            Emitted(vault[k]) <=>
              clock >= SourceDay(vault[k])
                         + (policy.frequency_days - policy.grace_period_days)
      /\ \A j \in 1..Len(candidates) :
            \E k \in 1..Len(vault) : candidates[j].item = vault[k]
      /\ policy.grace_period_days = 0 =>
            \A k \in 1..Len(vault) :
               Emitted(vault[k]) <=>
                 clock >= SourceDay(vault[k]) + policy.frequency_days

(* C1's case: within one selection with a grace period, an item exactly at  *)
(* its reminder threshold is emitted and an item one day short is not.      *)
C1_Witness ==
    /\ pc = "selected"
    /\ policy.grace_period_days > 0
    /\ \E k, m \in 1..Len(vault) :
          /\ clock = SourceDay(vault[k])
                       + policy.frequency_days - policy.grace_period_days
          /\ Emitted(vault[k])
          /\ clock + 1 = SourceDay(vault[m])
                           + policy.frequency_days - policy.grace_period_days
          /\ ~Emitted(vault[m])

(* C2: every candidate's due_at is effective_rotation_source +              *)
(* frequency_days, whatever the grace period and the evaluation time; with  *)
(* a grace period g > 0 an item is a candidate already at                   *)
(* now = effective_rotation_source + frequency_days - g, before its due_at. *)
C2_DueAtIsHardDeadline ==
    pc = "selected" =>
      /\ \A j \in 1..Len(candidates) :
            /\ candidates[j].due_at.utc =
                 SourceDay(candidates[j].item) + policy.frequency_days
            /\ candidates[j].due_at.tz = UTC
      /\ \A k \in 1..Len(vault) :
            (/\ policy.grace_period_days > 0
             /\ clock = SourceDay(vault[k]) + policy.frequency_days
                          - policy.grace_period_days)
            => \E j \in 1..Len(candidates) :
                  /\ candidates[j].item = vault[k]
                  /\ candidates[j].due_at.utc > clock

(* C2's case: a candidate emitted at the reminder threshold, before its     *)
(* due_at, from a rotation timestamp that differs from the revision date.   *)
C2_Witness ==
    /\ pc = "selected"
    /\ policy.grace_period_days > 0
    /\ \E j \in 1..Len(candidates) :
          /\ candidates[j].item.last_rotated_at # None
          /\ candidates[j].item.last_rotated_at[1]
               # candidates[j].item.revision_date
          /\ clock = SourceDay(candidates[j].item) + policy.frequency_days
                       - policy.grace_period_days
          /\ candidates[j].due_at.utc = clock + policy.grace_period_days

(* C5: the fingerprint of a candidate list and of any permutation of it     *)
(* are identical.                                                           *)
C5_FingerprintOrderIndependent ==
    pc = "hashed" => digests[1] = digests[2]


(* The state store worked in the recorded cycle: the file held a decodable  *)
(* fingerprint and was found and read without error.                        *)
StoreWorked == state_before.file.kind = "json" /\ faults.read = "ok"

AllNotice(i) ==
    /\ calls[i].recipient = "all"
    /\ calls[i].items = candidates

(* C3: in digest mode with a working state store, a cycle whose due set     *)
(* (item ids and due_at values) is that of the cycle that last stored a     *)
(* fingerprint gets has_changed = false, sends nothing and succeeds.        *)
C3_UnchangedDueSetIsSilent ==
    (/\ DigestCycle
     /\ candidates # <<>>
     /\ StoreWorked
     /\ DueSet(state_before.stored_for) = DueSet(candidates))
    => /\ has_changed = "false"
       /\ calls = <<>>
       /\ outcome = "ok"

(* C4: in digest mode a cycle whose delivery fails is not recorded as       *)
(* notified: the state file does not hold that cycle's fingerprint, and the *)
(* next cycle over the same input finds a change and notifies again.        *)
C4_FailedDeliveryNotRecorded ==
    /\ (DigestCycle /\ outcome = "delivery_error")
       => ~(state_file.kind = "json" /\ stored_for = candidates)
    /\ (DigestCycle /\ previous = "delivery_error" /\ candidates # <<>>)
       => (has_changed = "true" /\ Len(calls) = 1)

(* C6: in digest mode a cycle whose non-empty due set differs from the one  *)
(* behind the stored fingerprint gets has_changed = true, sends exactly one *)
(* notification to "all" with every candidate, and stores the new           *)
(* fingerprint.  Stated for the cycles in which no write of the state file  *)
(* fails (a failed write is ignored and the fingerprint is then not stored).*)
C6_ChangedDueSetNotifiesAndStores ==
    (/\ DigestCycle
     /\ candidates # <<>>
     /\ state_before.file.kind = "json"
     /\ faults.write \notin {"denied", "truncated"}
     /\ DueSet(state_before.stored_for) # DueSet(candidates))
    => /\ has_changed = "true"
       /\ Len(calls) = 1
       /\ AllNotice(1)
       /\ state_file = JsonFile(Fingerprint(candidates))
       /\ stored_for = candidates

(* What the resolver answered for the k-th candidate. *)
Resolved(k) == directory[candidates[k].item.user_id]

(* The distinct resolved recipients of the recorded cycle. *)
Recipients ==
    {Resolved(k) : k \in 1..Len(candidates)} \ {NoEmail, ""}

CandidatesOf(email) ==
    LET Mine(c) == directory[c.item.user_id] = email
    IN SelectSeq(candidates, Mine)

Notified == {calls[i].recipient : i \in 1..Len(calls)}

(* Every notification goes to a resolved, non-empty recipient, holds        *)
(* exactly that recipient's candidates, and no recipient gets two.          *)
GroupedNotices ==
    /\ \A i \in 1..Len(calls) :
          /\ calls[i].recipient \in Recipients
          /\ calls[i].items = CandidatesOf(calls[i].recipient)
    /\ \A i, j \in 1..Len(calls) :
          i # j => calls[i].recipient # calls[j].recipient

C9_EmptyDueSetNoCall ==
    (pc = "done" /\ candidates = <<>>) => calls = <<>>

(* C9's case: the vault lists items, none of them is due, and the cycle has *)
(* run.                                                                     *)
C9_Witness ==
    /\ pc = "done"
    /\ vault # <<>>
    /\ candidates = <<>>
    /\ outcome = "ok"

(* C10: digest persistence errors are never fatal: in digest mode a cycle   *)
(* with a non-empty due set that cannot find, read or decode the prior      *)
(* state, or cannot write the new fingerprint, still sends its              *)
(* notification, and ends in an error only if the delivery fails.           *)
C10_PersistenceErrorsNotFatal ==
    (/\ DigestCycle
     /\ candidates # <<>>
     /\ \/ faults.read # "ok"
        \/ state_before.file.kind = "corrupt"
        \/ faults.write \in {"denied", "truncated"})
    => /\ has_changed = "true"
       /\ Len(calls) = 1
       /\ AllNotice(1)
       /\ outcome = IF calls[1].delivered THEN "ok" ELSE "delivery_error"

-----------------------------------------------------------------------------
(* Source errors *)

(* C12: when listing the vault items fails, run_once propagates the error   *)
(* and the cycle has no other effect: no notifier call is made, the state   *)
(* file is not accessed and the persisted digest state is unchanged.        *)
C12_ListFailureHasNoEffect ==
    pc = "failed" =>
      /\ outcome = "source_error"
      /\ candidates = <<>>
      /\ calls = <<>>
      /\ file_io = <<>>
      /\ state_file = state_before.file
      /\ stored_for = state_before.stored_for

(* C12's case: the listing fails in digest mode while the vault holds due   *)
(* items whose fingerprint is not the stored one, so that a cycle that      *)
(* listed them would have notified and written.                             *)
C12_Witness ==
    /\ pc = "failed"
    /\ DigestEnabled(env_digest)
    /\ state_file.kind = "json"
    /\ SelectDueItems(vault, policy, NowFactory(clock)) # <<>>
    /\ state_file # JsonFile(Fingerprint(SelectDueItems(vault, policy,
                                                        NowFactory(clock))))
    /\ outcome = "source_error"

-----------------------------------------------------------------------------
(* Concurrency *)

AllFinished == \A w \in Workers : cycles[w].step \in {"notified", "silent"}

(* C11: the digest check-and-store takes no lock.  Cycles that run          *)
(* concurrently in digest mode on one state file, with the same non-empty   *)
(* due set and no matching stored fingerprint, may each send the            *)
(* notification (see C11_Witness), never more than one each; at least one   *)
(* is sent, the state file ends up holding the fingerprint the last writer  *)
(* wrote, and with at most one cycle at a time exactly one notification is  *)
(* sent.  With a matching stored fingerprint none is sent.                  *)
C11_UnlockedCheckAndStore ==
    /\ cycles # <<>> => Len(calls) <= MaxCycles
    /\ (cycles # <<>> /\ AllFinished) =>
          IF state_before.file = JsonFile(Fingerprint(candidates))
          THEN calls = <<>> /\ state_file = state_before.file
          ELSE /\ Len(calls) >= 1
               /\ state_file = JsonFile(Fingerprint(candidates))
               /\ pc = "serial" => Len(calls) = 1

(* C11's case: two cycles overlapped, no fingerprint matched at the start,  *)
(* both have sent the notification, and the state file holds the            *)
(* fingerprint.                                                             *)
C11_Witness ==
    /\ cycles # <<>>
    /\ AllFinished
    /\ pc = "concurrent"
    /\ state_before.file # JsonFile(Fingerprint(candidates))
    /\ Len(calls) = 2
    /\ calls[1] = calls[2]
    /\ state_file = JsonFile(Fingerprint(candidates))

-----------------------------------------------------------------------------
(* Delivery *)

Finished == send_state \in {"returned", "raised"}

Failed(k) == responses[k] # "ok"

(* C13: one call of send_rotation_notice always terminates, after at most 5 *)
(* publish attempts: a transient failure of an attempt before the fifth is  *)
(* followed by another attempt, after a backoff of 2^attempt seconds (1, 2, *)
(* 4, 8), and a failure of the fifth attempt is raised to the caller.       *)
C13_AtMostFiveAttempts ==
    /\ <>Finished
    /\ [](/\ published <= 5
          /\ Len(slept) <= 4
          /\ \A k \in 1..Len(slept) : slept[k] = 2 ^ (k - 1)
          /\ \A k \in 1..published :
                (responses[k] \in TransientCodes /\ k < 5)
                => (Len(slept) >= k /\ (Finished => published > k))
          /\ (published = 5 /\ Failed(5)) => send_state = "raised"
          /\ send_state = "returned" => responses[published] = "ok")

(* C13's case: five attempts, each failing with a transient error, the      *)
(* four backoffs in between, and the error raised after the fifth.          *)
C13_Witness ==
    /\ send_state = "raised"
    /\ client_error_cls = "ClientError"
    /\ published = 5
    /\ \A k \in 1..5 : responses[k] \in TransientCodes
    /\ slept = <<1, 2, 4, 8>>

(* C14: a publish failure that is not of a transient class ends the call:   *)
(* it is raised after that attempt, with no further attempt and no backoff  *)
(* after it, whether or not it is a ClientError.                            *)
C14_NonTransientRaisedAtOnce ==
    \A k \in 1..published :
       (Failed(k) /\ responses[k] \notin TransientCodes)
       => (published = k /\ Len(slept) = k - 1 /\ send_state = "raised")

-----------------------------------------------------------------------------
(* Normalization *)

(* The cycle has run on the raw listing and no filter dropped a record:     *)
(* vault[k] is what from_api made of raw[k].                                *)
Normalized == pc \in {"done", "failed"} /\ raw # <<>> /\ Len(vault) = Len(raw)

NoOffset(text) == text.form \in {"plain", "loose"}

Malformed(text) == text.form \in {"missing", "null", "blank", "garbage"}

(* C15: a revision or rotation timestamp given without a UTC offset         *)
(* (YYYY-MM-DDTHH:MM:SS[.ffffff], YYYY-MM-DD HH:MM:SS) is normalized to an  *)
(* offset-aware UTC timestamp, and the evaluation cycle over such an item   *)
(* completes without error.                                                 *)
C15_TimestampWithoutOffsetIsUtc ==
    Normalized =>
      \A k \in 1..Len(raw) :
         /\ NoOffset(raw[k].revisionDate)
            => vault[k].revision_date = DateTime(raw[k].revisionDate.day, UTC)
         /\ NoOffset(raw[k].passwordRotation)
            => vault[k].last_rotated_at
                 = Some(DateTime(raw[k].passwordRotation.day, UTC))
         /\ (NoOffset(raw[k].revisionDate) \/ NoOffset(raw[k].passwordRotation))
            => outcome = "ok"

(* C16: from_api raises nothing on malformed, empty or missing timestamp    *)
(* strings: such a revisionDate yields revision_date = the evaluation time  *)
(* (now_factory's now), rotation fields that are all such yield             *)
(* last_rotated_at absent, and the evaluation cycle completes.              *)
C16_MalformedTimestampsDegrade ==
    Normalized =>
      \A k \in 1..Len(raw) :
         /\ Malformed(raw[k].revisionDate)
            => vault[k].revision_date = NowFactory(clock)
         /\ (Malformed(raw[k].passwordRotation)
               /\ Malformed(raw[k].lastPasswordRotation))
            => vault[k].last_rotated_at = None
         /\ (/\ Malformed(raw[k].revisionDate)
             /\ Malformed(raw[k].passwordRotation)
             /\ Malformed(raw[k].lastPasswordRotation))
            => outcome = "ok"

(* The rotation timestamp when the first non-empty field decides alone. *)
RotationOfFirstNonEmpty(payload) ==
    IF payload.passwordRotation.form \notin {"missing", "null", "blank"}
    THEN ParseTimestamp(payload.passwordRotation)
    ELSE ParseTimestamp(StrGet(payload.lastPasswordRotation, NoneText))

(* C17: of passwordRotation and lastPasswordRotation the first non-empty    *)
(* one wins: when passwordRotation is non-empty, last_rotated_at is what    *)
(* that field parses to (absent if it is unparseable) and                   *)
(* lastPasswordRotation is not consulted.                                   *)
C17_FirstNonEmptyRotationFieldWins ==
    Normalized =>
      \A k \in 1..Len(raw) :
         vault[k].last_rotated_at = RotationOfFirstNonEmpty(raw[k])

-----------------------------------------------------------------------------
(* The data model *)

(* C18: effective_rotation_source is a concrete timestamp for every item:   *)
(* last_rotated_at whenever that is present, also when revision_date is     *)
(* later, and revision_date otherwise; the due decision and due_at depend   *)
(* on the item through this value only.                                     *)
C18_EffectiveRotationSourceDecides ==
    pc = "selected" =>
      /\ \A k \in 1..Len(vault) :
            /\ EffectiveRotationSource(vault[k]) \in Timestamps({UTC})
            /\ vault[k].last_rotated_at # None
               => EffectiveRotationSource(vault[k]) = vault[k].last_rotated_at[1]
            /\ vault[k].last_rotated_at = None
               => EffectiveRotationSource(vault[k]) = vault[k].revision_date
      /\ \A k, m \in 1..Len(vault) :
            SourceDay(vault[k]) = SourceDay(vault[m])
            => (Emitted(vault[k]) <=> Emitted(vault[m]))
      /\ \A j, i \in 1..Len(candidates) :
            SourceDay(candidates[j].item) = SourceDay(candidates[i].item)
            => candidates[j].due_at = candidates[i].due_at

(* C18's case: one selection over an item rotated on day 0 and revised      *)
(* later, which is emitted, and an item revised on day 0 and rotated later, *)
(* which is not.                                                            *)
C18_Witness ==
    /\ pc = "selected"
    /\ \E k, m \in 1..Len(vault) :
          /\ vault[k].last_rotated_at = Some(DateTime(0, UTC))
          /\ vault[k].revision_date.utc > 0
          /\ Emitted(vault[k])
          /\ vault[m].last_rotated_at # None
          /\ vault[m].last_rotated_at[1].utc > 0
          /\ vault[m].revision_date.utc = 0
          /\ ~Emitted(vault[m])

-----------------------------------------------------------------------------
(* Targeting *)

(* The record raw[k] reaches the candidate selector. *)
Reaches(k) == \E j \in 1..Len(vault) : vault[j].id = raw[k].id

(* The collection ids of a record: its scalar and its list field. *)
CollectionIdsOf(payload) ==
    (IF payload.collectionId = None THEN {} ELSE {payload.collectionId[1]})
      \cup (IF payload.collectionIds = None THEN {}
            ELSE Elements(payload.collectionIds[1]))

Passes(k, collections_set, users_set) ==
    /\ collections_set
       => CollectionIdsOf(raw[k]) \cap policy.target_collections[1] # {}
    /\ users_set => raw[k].userId \in policy.target_users[1]

(* C19 as stated: an item reaches the candidate selector exactly when it    *)
(* passes every allow-list that is set (not None): its collection ids       *)
(* intersect target_collections, its owner id is in target_users.           *)
C19_SetAllowListsDecide ==
    pc = "done" =>
      \A k \in 1..Len(raw) :
         Reaches(k) <=> Passes(k, policy.target_collections # None,
                               policy.target_users # None)

(* C19 as amended: ... every allow-list that is set and not empty; an       *)
(* allow-list that is unset or empty filters nothing on its axis.           *)
C19_NonEmptyAllowListsDecide ==
    pc = "done" =>
      \A k \in 1..Len(raw) :
         Reaches(k) <=>
           Passes(k,
                  policy.target_collections # None
                    /\ policy.target_collections[1] # {},
                  policy.target_users # None /\ policy.target_users[1] # {})

(* C19's case: both allow-lists hold entries; one record passes both, by    *)
(* its list field only, and reaches the selector; another passes the        *)
(* collection list by its scalar field, fails the user list and does not.   *)
C19_Witness ==
    /\ pc = "done"
    /\ policy.target_collections = Some({"c1"})
    /\ policy.target_users = Some({"u1"})
    /\ Len(raw) = 2
    /\ raw[1].collectionId = None
    /\ raw[1].collectionIds = Some(<<"c1", "c2">>)
    /\ raw[1].userId = "u1"
    /\ raw[2].collectionId = Some("c1")
    /\ raw[2].userId = "u2"
    /\ Len(vault) = 1
    /\ vault[1].id = raw[1].id

-----------------------------------------------------------------------------
(* The dispatch mode *)

(* C20: RotationPolicy.send_digest selects the dispatch mode: with          *)
(* send_digest true a cycle with candidates consults the digest state and   *)
(* sends one combined notification to "all"; with send_digest false it      *)
(* dispatches per recipient, without the digest state and without a         *)
(* notification to "all".                                                   *)
C20_SendDigestSelectsMode ==
    (pc = "done" /\ candidates # <<>>) =>
      IF policy.send_digest
      THEN /\ has_changed = "true"
           /\ Len(calls) = 1
           /\ calls[1].recipient = "all"
      ELSE /\ has_changed = "n/a"
           /\ file_io = <<>>
           /\ \A i \in 1..Len(calls) : calls[i].recipient # "all"

-----------------------------------------------------------------------------
(* Frame effects *)

(* The step is one run_once that returned. *)
CycleStep == pc' = "done" /\ vars' # vars

(* C21: a cycle with an empty due set leaves the persisted fingerprint as   *)
(* it was and does not touch the state file; so in digest mode, with a      *)
(* working state store, a cycle that follows an empty cycle and has the due *)
(* set (item ids and due_at values) behind the stored fingerprint sends no  *)
(* second notification.                                                     *)
C21_EmptyCycleKeepsFingerprint ==
    [][/\ (CycleStep /\ candidates' = <<>>)
          => /\ state_file' = state_file
             /\ stored_for' = stored_for
             /\ file_io' = <<>>
       /\ (/\ CycleStep
           /\ send_notifications'
           /\ DigestEnabled(env_digest)
           /\ last_empty
           /\ candidates' # <<>>
           /\ state_file.kind = "json"
           /\ faults'.read = "ok"
           /\ DueSet(stored_for) = DueSet(candidates'))
          => /\ has_changed' = "false"
             /\ calls' = <<>>]_vars

(* C22: a dry run returns the candidates a notifying run returns, makes no  *)
(* notifier call and neither reads nor writes the state file; so a          *)
(* notifying cycle in digest mode that directly follows it over the same    *)
(* input, and whose due list is not the one behind the fingerprint stored   *)
(* before the dry run, still sends its notification.                        *)
C22_DryRunHasNoEffect ==
    /\ (pc = "done" /\ ~send_notifications)
       => /\ candidates = SelectDueItems(vault, policy, NowFactory(clock))
          /\ outcome = "ok"
          /\ calls = <<>>
          /\ file_io = <<>>
          /\ has_changed = "n/a"
          /\ state_file = state_before.file
          /\ stored_for = state_before.stored_for
    /\ (/\ DigestCycle
        /\ previous = "dry"
        /\ candidates # <<>>
        /\ faults.read # "stat_error"
        /\ LoadPrev(state_before.file, faults.read)
             # Some(Fingerprint(candidates)))
       => /\ has_changed = "true"
          /\ Len(calls) = 1
          /\ AllNotice(1)

(* C22's case: a dry run over a due set, with no state file, followed by a  *)
(* notifying cycle over the same input, which notifies.                     *)
C22_Witness ==
    /\ DigestCycle
    /\ previous = "dry"
    /\ Len(candidates) = MaxItems
    /\ state_before.file = AbsentFile
    /\ Len(calls) = 1
    /\ calls[1].delivered

-----------------------------------------------------------------------------
(* The notifier's receipt *)

(* The publish calls made so far that succeeded. *)
Successes == {k \in 1..published : responses[k] = "ok"}

(* C23: every call of send_rotation_notice ends, either returning a receipt *)
(* after exactly one successful publish, which is the last publish call it  *)
(* makes, or raising with no successful publish; it never returns without   *)
(* a successful publish, and makes no publish call once it has ended.       *)
C23_ReceiptIffOnePublish ==
    /\ <>Finished
    /\ [](send_state = "returned" => Successes = {published})
    /\ [](send_state = "raised" => Successes = {})
    /\ [](send_state = "sending" => Successes = {})
    /\ [][Finished => published' = published]_vars

(* C23's case: the call returned after failed attempts and a successful     *)
(* one, with a further publish that would have succeeded never made.        *)
C23_Witness ==
    /\ send_state = "returned"
    /\ published = 2
    /\ slept = <<1>>
    /\ responses[2] = "ok"
    /\ responses[3] = "ok"

-----------------------------------------------------------------------------
(* The scheduler loop *)

(* The last cycle raised an error of the source, the state file or the      *)
(* delivery.                                                                *)
CycleFailed ==
    outcome \in {"source_error", "state_error", "delivery_error"}

(* C24: in run_scheduler_loop an exception raised by a cycle is caught and  *)
(* logged and does not stop the loop: the next cycle is executed after one  *)
(* more sleep; with the run-once switch set, exactly one cycle is executed  *)
(* and the loop returns, whether or not the cycle failed, and it returns in *)
(* no other case.                                                           *)
C24_LoopSurvivesCycleFailure ==
    /\ [](CycleFailed
          => /\ service.logged >= 1
             /\ service.pc \in {"sleeping", "woke", "returned"}
             /\ service.pc = "returned" <=> service.run_once)
    /\ \A k \in 1..(MaxLoops - 1) :
          (CycleFailed /\ ~service.run_once /\ service.executed = k)
            ~> (service.executed = k + 1 /\ service.slept = k)
    /\ [](service.run_once
          => /\ service.executed <= 1
             /\ service.slept = 0
             /\ service.executed = 1
                => (service.pc = "returned" \/ outcome = "interrupt"))
    /\ (service.run_once /\ service.pc = "start")
         ~> (service.executed = 1 /\ service.pc # "start")
    /\ [](service.pc = "returned"
          => service.run_once /\ service.executed = 1)

(* C24's case: the first cycle of the loop failed and was logged, the loop  *)
(* slept once and ran a second cycle, which notified.                       *)
C24_Witness ==
    /\ service.executed = 2
    /\ service.slept = 1
    /\ service.logged = 1
    /\ outcome = "ok"
    /\ Len(calls) = 1

(* C24's other case: under the run-once switch the only cycle failed and    *)
(* the loop returned.                                                       *)
C24_WitnessOnce ==
    /\ service.run_once
    /\ service.pc = "returned"
    /\ CycleFailed

====
